---- MODULE Spec2Model ----
(***************************************************************************)
(* Employee wellness survey (Streamlit): the questionnaire wizard held in  *)
(* st.session_state, re-evaluated by one script run per interaction, and   *)
(* get_gemini_recommendations, which posts the ratings and parses the      *)
(* reply text into recommendations and a summary.                          *)
(*                                                                         *)
(* Two specifications share the module:                                    *)
(*   Spec           the script runs of one browser session;               *)
(*   ExtractorSpec  one call of get_gemini_recommendations, statement by   *)
(*                  statement, for every response of a bounded set.        *)
(* A Python str is a sequence of one-character strings; the f-string       *)
(* error messages are sequences of their literal parts and str(e).         *)
(***************************************************************************)
EXTENDS Integers, Sequences, FiniteSets, TLC

VARIABLES
    session_state,      \* st.session_state: the eight keys of the script
    department_select,  \* value of the selectbox widget
    slider,             \* widget state of the one rendered slider
    pc,                 \* "idle", or "rerun" while an st.rerun() is pending
    screen,             \* what the last script run rendered
    last_run,           \* what the last script run did
    calls,              \* extractor invocations since the last Submit
    moved,              \* questions whose slider the user dragged since the department was selected
    secrets,            \* the keys st.secrets holds
    uncaught,           \* the exception that ended the last script run, if one did
    failed,             \* whether an extractor call of the session returned an error message
    response,           \* ExtractorSpec: what the HTTP exchange delivers
    ex_pc,              \* ExtractorSpec: position in get_gemini_recommendations
    result,             \* ExtractorSpec: parsed JSON body (local `result`)
    lines,              \* ExtractorSpec: generated_text.split('\n')
    pos,                \* ExtractorSpec: lines already consumed by the for loop
    generated_text,     \* ExtractorSpec: the candidate text (local `generated_text`)
    parse,              \* ExtractorSpec: recommendations, summary, summary_found
    returned            \* ExtractorSpec: the returned pair, or the escaped exception

ui_vars == <<session_state, department_select, slider, pc, screen, last_run, calls, moved,
            secrets, uncaught, failed>>
ex_vars == <<response, ex_pc, result, generated_text, lines, pos, parse, returned>>
vars == <<session_state, department_select, slider, pc, screen, last_run, calls, moved,
          secrets, uncaught, failed,
          response, ex_pc, result, generated_text, lines, pos, parse, returned>>

----------------------------------------------------------------------------
(* Bounds of the model *)

\* questions per department (10 in the question bank)
NumQuestions == 3
\* reply texts are built from at most this many fragments
MaxFragments == 5

----------------------------------------------------------------------------
(* Python str operations used by the parser *)

\* the characters str.strip() removes (the ASCII ones a reply is built from)
Whitespace == {" ", "\t", "\n", "\r", "\f"}

RECURSIVE LStrip(_)
LStrip(s) ==
    IF s = <<>> THEN <<>>
    ELSE IF Head(s) \in Whitespace THEN LStrip(Tail(s)) ELSE s

RECURSIVE RStrip(_)
RStrip(s) ==
    IF s = <<>> THEN <<>>
    ELSE IF s[Len(s)] \in Whitespace THEN RStrip(SubSeq(s, 1, Len(s) - 1)) ELSE s

\* str.strip()
Strip(s) == RStrip(LStrip(s))

\* str.startswith(prefix)
StartsWith(s, prefix) ==
    /\ Len(s) >= Len(prefix)
    /\ SubSeq(s, 1, Len(prefix)) = prefix

\* s[n:]
DropPrefix(s, n) == SubSeq(s, n + 1, Len(s))

\* str.replace(old, ''): non-overlapping occurrences, scanned left to right
RECURSIVE Remove(_, _)
Remove(s, old) ==
    IF s = <<>> THEN <<>>
    ELSE IF StartsWith(s, old) THEN Remove(DropPrefix(s, Len(old)), old)
    ELSE <<Head(s)>> \o Remove(Tail(s), old)

\* str.split(sep) for a one-character separator: "" gives [""]
RECURSIVE Split(_, _)
Split(s, sep) ==
    IF \A i \in 1..Len(s) : s[i] # sep THEN <<s>>
    ELSE LET i == CHOOSE k \in 1..Len(s) :
                    s[k] = sep /\ \A j \in 1..(k - 1) : s[j] # sep
         IN  <<SubSeq(s, 1, i - 1)>> \o Split(DropPrefix(s, i), sep)

\* old in s
Contains(s, old) ==
    \E i \in 0..(Len(s) - Len(old)) : SubSeq(s, i + 1, i + Len(old)) = old

SummaryToken == <<"S", "u", "m", "m", "a", "r", "y", ":">>
Bold == <<"*", "*">>
Hyphen == <<"-">>
NoSummaryPlaceholder == <<"No distinct summary provided by AI.">>

----------------------------------------------------------------------------
(* The line classifier of get_gemini_recommendations *)

ParseStart == [recommendations |-> <<>>, summary |-> <<>>, summary_found |-> FALSE]

\* the summary branch, app.py:153-155
SummaryBranchMutant(st, stripped_line) ==
    [st EXCEPT !.summary = DropPrefix(stripped_line, Len(SummaryToken)),
               !.summary_found = TRUE]

SummaryBranch(st, stripped_line) ==
    [st EXCEPT !.summary = Strip(DropPrefix(stripped_line, Len(SummaryToken))),
               !.summary_found = TRUE]

\* clean_rec = stripped_line.replace('**', ''), app.py:158 and 161
RECURSIVE RemoveFirst(_, _)
RemoveFirst(s, old) ==
    IF s = <<>> THEN <<>>
    ELSE IF StartsWith(s, old) THEN DropPrefix(s, Len(old))
    ELSE <<Head(s)>> \o RemoveFirst(Tail(s), old)

CleanRecMutant(stripped_line) == RemoveFirst(stripped_line, Bold)

CleanRec(stripped_line) == Remove(stripped_line, Bold)

\* one iteration of `for line in lines`, app.py:151-162
ParseLineMutant(st, line) ==
    LET stripped_line == Strip(line) IN
    IF StartsWith(stripped_line, SummaryToken)
    THEN SummaryBranch(st, stripped_line)
    ELSE IF StartsWith(stripped_line, Hyphen) /\ ~st.summary_found
    THEN [st EXCEPT !.recommendations = Append(@, CleanRec(stripped_line))]
    ELSE st

ParseLine(st, line) ==
    LET stripped_line == Strip(line) IN
    IF StartsWith(stripped_line, SummaryToken)
    THEN SummaryBranch(st, stripped_line)
    ELSE IF StartsWith(stripped_line, Hyphen) /\ ~st.summary_found
    THEN [st EXCEPT !.recommendations = Append(@, CleanRec(stripped_line))]
    ELSE IF ~st.summary_found /\ stripped_line # <<>>
    THEN [st EXCEPT !.recommendations = Append(@, CleanRec(stripped_line))]
    ELSE st

\* the state after the first n lines
RECURSIVE ParseLines(_, _)
ParseLines(ls, n) ==
    IF n = 0 THEN ParseStart ELSE ParseLine(ParseLines(ls, n - 1), ls[n])

\* the fallback and the return, app.py:165-171
FallbackNoneMutant(st, text) == <<st.recommendations, st.summary>>

FallbackMutant(st, text) ==
    IF st.recommendations = <<>>
    THEN <<<<Remove(Strip(text), Bold)>>, NoSummaryPlaceholder>>
    ELSE <<st.recommendations, st.summary>>

Fallback(st, text) ==
    IF st.recommendations = <<>> /\ st.summary = <<>>
    THEN <<<<Remove(Strip(text), Bold)>>, NoSummaryPlaceholder>>
    ELSE <<st.recommendations, st.summary>>

\* the whole parse of a reply text, app.py:149-171
ParseReply(text) ==
    LET ls == Split(text, "\n")
    IN  Fallback(ParseLines(ls, Len(ls)), text)

----------------------------------------------------------------------------
(* JSON values as Python objects, and the expressions applied to them *)

JNull == [t |-> "null", v |-> <<>>]
JNum(n) == [t |-> "number", v |-> n]
JStr(s) == [t |-> "string", v |-> s]
JArr(elems) == [t |-> "array", v |-> elems]
\* a dict as its sequence of <<key, value>> pairs
JObj(pairs) == [t |-> "object", v |-> pairs]

NoException == "none"
Value(x) == [exc |-> NoException, v |-> x]
Raise(e) == [exc |-> e, v |-> JNull]

\* bool(x)
Truthy(j) ==
    CASE j.t = "null" -> FALSE
      [] j.t = "number" -> j.v # 0
      [] OTHER -> j.v # <<>>

HasKey(j, key) == \E i \in 1..Len(j.v) : j.v[i][1] = key
Lookup(j, key) == j.v[CHOOSE i \in 1..Len(j.v) : j.v[i][1] = key][2]

\* x.get(key)
Get(j, key) ==
    IF j.t # "object" THEN Raise("AttributeError")
    ELSE IF HasKey(j, key) THEN Value(Lookup(j, key)) ELSE Value(JNull)

\* len(x)
PyLen(j) ==
    IF j.t \in {"string", "array", "object"} THEN Value(Len(j.v)) ELSE Raise("TypeError")

\* x[key] for a str key
Item(j, key) ==
    CASE j.t = "object" -> IF HasKey(j, key) THEN Value(Lookup(j, key)) ELSE Raise("KeyError")
      [] OTHER -> Raise("TypeError")

\* x[0]
First(j) ==
    CASE j.t = "array" -> IF j.v = <<>> THEN Raise("IndexError") ELSE Value(j.v[1])
      [] j.t = "string" -> IF j.v = <<>> THEN Raise("IndexError") ELSE Value(JStr(<<j.v[1]>>))
      [] j.t = "object" -> Raise("KeyError")
      [] OTHER -> Raise("TypeError")

\* x[step]: "[0]" stands for the index 0, any other step is a str key
Subscript(j, step) == IF step = "[0]" THEN First(j) ELSE Item(j, step)

\* a chain of subscripts, left to right; the first exception ends it
RECURSIVE Follow(_, _)
Follow(r, path) ==
    IF r.exc # NoException \/ path = <<>> THEN r
    ELSE Follow(Subscript(r.v, Head(path)), Tail(path))

\* the one element of a singleton set (binds a value that is computed once)
The(S) == CHOOSE y \in S : TRUE

----------------------------------------------------------------------------
(* Exceptions and the except clauses of get_gemini_recommendations *)

\* the classes an exception is an instance of
Mro(e) ==
    CASE e = "ConnectionError" -> {"ConnectionError", "RequestException", "OSError", "Exception"}
      [] e = "Timeout" -> {"Timeout", "RequestException", "OSError", "Exception"}
      [] e = "HTTPError" -> {"HTTPError", "RequestException", "OSError", "Exception"}
      [] e = "requests.JSONDecodeError" ->
            {"requests.JSONDecodeError", "InvalidJSONError", "RequestException", "OSError",
             "json.JSONDecodeError", "ValueError", "Exception"}
      [] e = "json.JSONDecodeError" -> {"json.JSONDecodeError", "ValueError", "Exception"}
      [] e = "KeyError" -> {"KeyError", "LookupError", "Exception"}
      [] e = "IndexError" -> {"IndexError", "LookupError", "Exception"}
      [] e = "TypeError" -> {"TypeError", "Exception"}
      [] e = "AttributeError" -> {"AttributeError", "Exception"}

\* the except clauses in the order they are tried, app.py:174, 177, 180
ExceptClausesMutant == <<"RequestException", "json.JSONDecodeError">>

ExceptClauses == <<"RequestException", "json.JSONDecodeError", "Exception">>

ConnectMessage(e) ==
    <<"Error connecting to AI service: ", e,
      ". Please check your API key and network connection.">>
ParseFailureMessage ==
    <<"Error: Could not parse AI response. The response was not valid JSON.">>
UnexpectedMessage(e) == <<"An unexpected error occurred: ", e>>
NoCandidatesMessage ==
    <<"Error: No recommendations could be generated by the AI. The response structure was unexpected.">>

Returned(pair) == [raised |-> NoException, value |-> pair]
Escaped(e) == [raised |-> e, value |-> <<>>]
NotReturned == [raised |-> "pending", value |-> <<>>]

\* the first except clause that matches e, and what it returns, app.py:174-182
Handle(e) ==
    LET matching == {i \in 1..Len(ExceptClauses) : ExceptClauses[i] \in Mro(e)} IN
    IF matching = {} THEN Escaped(e)
    ELSE LET clause == ExceptClauses[CHOOSE i \in matching : \A j \in matching : i <= j] IN
         CASE clause = "RequestException" -> Returned(<<<<ConnectMessage(e)>>, <<>>>>)
           [] clause = "json.JSONDecodeError" -> Returned(<<<<ParseFailureMessage>>, <<>>>>)
           [] clause = "Exception" -> Returned(<<<<UnexpectedMessage(e)>>, <<>>>>)

----------------------------------------------------------------------------
(* The statements of get_gemini_recommendations *)

\* requests.post(...), app.py:132-137
Post(resp) == IF resp.post = "ok" THEN Value(JNull) ELSE Raise(resp.post)

\* response.raise_for_status(), app.py:138
RaiseForStatusMutant(resp) == Value(JNull)

RaiseForStatus(resp) == IF resp.status = "ok" THEN Value(JNull) ELSE Raise("HTTPError")

\* result = response.json(), app.py:139
ResponseJson(resp) ==
    IF resp.body.kind = "json" THEN Value(resp.body.value) ELSE Raise(resp.body.raises)

\* result and result.get("candidates") and len(result["candidates"]) > 0, app.py:145
HasCandidates(res) ==
    IF ~Truthy(res) THEN Value(FALSE)
    ELSE LET c == Get(res, "candidates") IN
         IF c.exc # NoException THEN c
         ELSE IF ~Truthy(c.v) THEN Value(FALSE)
         ELSE LET n == PyLen(Lookup(res, "candidates")) IN
              IF n.exc # NoException THEN n ELSE Value(n.v > 0)

\* result["candidates"][0]["content"]["parts"][0]["text"], app.py:146
CandidatePath == <<"candidates", "[0]", "content", "parts", "[0]", "text">>
CandidateText(res) == Follow(Value(res), CandidatePath)

\* generated_text.split('\n'), app.py:149
SplitLines(text) ==
    IF text.t = "string" THEN Value(Split(text.v, "\n")) ELSE Raise("AttributeError")

\* lines 149-171 on the extracted text
FromText(text) ==
    The({ IF ls.exc # NoException THEN Handle(ls.exc) ELSE Returned(ParseReply(text.v))
          : ls \in {SplitLines(text)} })

\* line 146 and what follows it
FromCandidates(res) ==
    The({ IF text.exc # NoException THEN Handle(text.exc) ELSE FromText(text.v)
          : text \in {CandidateText(res)} })

\* the body of the try block once the JSON is parsed, app.py:141-173
FromResult(res) ==
    The({ IF has.exc # NoException THEN Handle(has.exc)
          ELSE IF ~has.v THEN Returned(<<<<NoCandidatesMessage>>, <<>>>>)
          ELSE FromCandidates(res)
          : has \in {HasCandidates(res)} })

\* get_gemini_recommendations as one call, app.py:130-182
get_gemini_recommendations(resp) ==
    IF Post(resp).exc # NoException THEN Handle(Post(resp).exc)
    ELSE IF RaiseForStatus(resp).exc # NoException THEN Handle(RaiseForStatus(resp).exc)
    ELSE IF ResponseJson(resp).exc # NoException THEN Handle(ResponseJson(resp).exc)
    ELSE The({FromResult(res) : res \in {ResponseJson(resp).v}})

----------------------------------------------------------------------------
(* Responses of the HTTP exchange *)

JsonBody(j) == [kind |-> "json", value |-> j, raises |-> NoException]
\* a body that is not JSON: response.json() raises requests' JSONDecodeError
\* (requests >= 2.27) or the json module's (older releases)
NotJsonBody(e) == [kind |-> "not_json", value |-> JNull, raises |-> e]

TransportFailure(e) == [post |-> e, status |-> "ok", body |-> JsonBody(JNull)]
HttpError(body) == [post |-> "ok", status |-> "error", body |-> body]
Ok(body) == [post |-> "ok", status |-> "ok", body |-> body]

\* the success body of the API: candidates[0].content.parts[0].text
Candidate(text) ==
    JObj(<< <<"content", JObj(<< <<"parts", JArr(<< JObj(<< <<"text", text>> >>) >>)>> >>)>> >>)
ReplyBody(chars) == JsonBody(JObj(<< <<"candidates", JArr(<<Candidate(JStr(chars))>>)>> >>))

----------------------------------------------------------------------------
(* The question bank and the widgets *)

PleaseSelect == "Please Select"
\* the options of the selectbox, app.py:199 (two of the five departments)
departments == <<PleaseSelect, "Sales", "Marketing">>
Departments == {departments[i] : i \in 1..Len(departments)}

\* the lists of the dict `questions`, app.py:10-71
SalesQuestionsMutant ==
    << "How clear and communicated are the overall company sales goals?",
       "How clear and communicated are the overall company sales goals?",
       "How effective is the sales training and onboarding you received?",
       "Do you feel empowered to make decisions that benefit your sales efforts?",
       "How would you rate the tools and technologies provided for sales activities (e.g., CRM)?",
       "How often do you receive constructive feedback on your sales performance?",
       "How well do you feel your work-life balance is in this sales role?",
       "Do you believe there are sufficient opportunities for advancement within the sales team?",
       "How valued do you feel your contributions are to the overall success of the company?",
       "How open is the communication between the sales team and other departments?" >>

SalesQuestions ==
    << "How clear and communicated are the overall company sales goals?",
       "How satisfied are you with the lead generation process and quality?",
       "How effective is the sales training and onboarding you received?",
       "Do you feel empowered to make decisions that benefit your sales efforts?",
       "How would you rate the tools and technologies provided for sales activities (e.g., CRM)?",
       "How often do you receive constructive feedback on your sales performance?",
       "How well do you feel your work-life balance is in this sales role?",
       "Do you believe there are sufficient opportunities for advancement within the sales team?",
       "How valued do you feel your contributions are to the overall success of the company?",
       "How open is the communication between the sales team and other departments?" >>

MarketingQuestions ==
    << "How aligned do you feel your individual goals are with the overall marketing strategy?",
       "How effective do you believe the processes are for campaign development and execution?",
       "How satisfied are you with the level of collaboration within the marketing team?",
       "Do you feel you have the autonomy to explore innovative marketing approaches?",
       "How would you rate the resources available for professional development in marketing?",
       "How clear is the feedback process on your marketing initiatives and performance?",
       "How manageable do you find your workload in your current marketing role?",
       "Do you see clear pathways for career progression within the marketing department?",
       "How recognized do you feel for your creative contributions and marketing successes?",
       "How well do you understand the impact of your marketing work on the company's bottom line?" >>

EngineeringQuestions ==
    << "How well-defined are the project requirements and specifications you work on?",
       "How effective do you believe the code review processes are within your team?",
       "How satisfied are you with the opportunities to work with new technologies?",
       "Do you feel your input is valued in technical decision-making processes?",
       "How would you rate the quality of the tools and software you use for development?",
       "How often do you receive feedback on your technical skills and contributions?",
       "How sustainable do you find the pace and workload of your engineering projects?",
       "Are you aware of opportunities for specialization or leadership within the engineering organization?",
       "How much do you feel your technical expertise contributes to the company's innovation?",
       "How effective is the communication between engineering teams and other departments (e.g., product)?" >>

HumanResourcesQuestions ==
    << "How effectively do you believe the company's values are reflected in HR practices?",
       "How satisfied are you with the tools and systems used for HR management?",
       "How well do you feel employee grievances and concerns are addressed?",
       "Do you believe the performance evaluation process is fair and constructive?",
       "How would you rate the support provided by HR leadership and management?",
       "How clear is the communication regarding changes in company policies and procedures?",
       "How manageable do you find the workload associated with your HR responsibilities?",
       "Do you see opportunities for growth and specialization within the HR function?",
       "How valued do you feel your role is in supporting the overall employee experience?",
       "How effective is the collaboration between different teams within the HR department?" >>

FinanceQuestions ==
    << "How clear and consistent are the financial reporting deadlines and expectations?",
       "How satisfied are you with the opportunities to develop your financial analysis skills?",
       "How effective do you believe the internal controls are within the finance department?",
       "Do you feel you have sufficient access to the data and information needed for your work?",
       "How would you rate the quality of the financial software and systems you use?",
       "How often do you receive feedback on the accuracy and efficiency of your work?",
       "How demanding do you find the workload during peak financial periods?",
       "Are you aware of opportunities for advancement or specialization within the finance team?",
       "How much do you feel your financial insights contribute to the company's strategic decisions?",
       "How effective is the communication between the finance department and other departments?" >>

\* the dict `questions` in full
QuestionBank ==
    [d \in {"Sales", "Marketing", "Engineering", "Human Resources", "Finance"} |->
        CASE d = "Sales" -> SalesQuestions
          [] d = "Marketing" -> MarketingQuestions
          [] d = "Engineering" -> EngineeringQuestions
          [] d = "Human Resources" -> HumanResourcesQuestions
          [] d = "Finance" -> FinanceQuestions]

\* questions[d]: the ordered questions of department d that the session model
\* asks (the first NumQuestions of each list)
questions == [d \in Departments \ {PleaseSelect} |-> SubSeq(QuestionBank[d], 1, NumQuestions)]

\* st.slider(" ", 1, 5, value=...), app.py:262-267
SliderMin == 1
SliderMax == 5
\* ratings.get(current_question, 3), app.py:259
DefaultRating == 3
\* the positions the user drags a slider to
SliderInputs == {SliderMin, SliderMax}

None == "None"
EmptyDict == [q \in {} |-> 0]
NoQuestion == -1
NoSlider == [key |-> <<None, NoQuestion>>, value |-> 0]
NoClick == "none"

\* dict.get(key, default)
DictGetMutant(d, key, default) == default

DictGet(d, key, default) == IF key \in DOMAIN d THEN d[key] ELSE default
\* d[key] = value
DictSetNoneMutant(d, key, value) == d

DictSetOnlyMutant(d, key, value) == [k \in {key} |-> value]

DictSetMutant(d, key, value) == [k \in DOMAIN d |-> IF k = key THEN value ELSE d[k]]

DictSet(d, key, value) == [k \in DOMAIN d \cup {key} |-> IF k = key THEN value ELSE d[k]]

\* the replies the API gives in the session model
SessionResponses ==
    { TransportFailure("ConnectionError"),
      Ok(JsonBody(JObj(<<>>))),
      Ok(ReplyBody(<<"-", " ", "x", "\n", "S", "u", "m", "m", "a", "r", "y", ":", " ", "y">>)),
      Ok(ReplyBody(<<"S", "u", "m", "m", "a", "r", "y", ":", "y">>)),
      Ok(ReplyBody(<<>>)) }

----------------------------------------------------------------------------
(* One run of the script, app.py:199-339 *)

\* session state initialisation, app.py:207-222
InitialSessionState ==
    [ ratings |-> EmptyDict,
      submitted |-> FALSE,
      last_submitted_department |-> None,
      last_submitted_ratings |-> EmptyDict,
      recommendations |-> <<>>,
      summary |-> <<>>,
      current_question_index |-> 0,
      active_department |-> PleaseSelect ]

BlankScreen == [question |-> NoQuestion, buttons |-> {}, thanks |-> FALSE, results |-> FALSE]

\* "Logic to reset state when department changes", app.py:225-233
DepartmentChangeKeepsSubmittedMutant(ss, selected_department) ==
    IF selected_department # ss.active_department
    THEN [ ss |-> [ss EXCEPT !.active_department = selected_department,
                             !.current_question_index = 0,
                             !.ratings = EmptyDict,
                             !.recommendations = <<>>,
                             !.summary = <<>>],
           rerun |-> selected_department # PleaseSelect ]
    ELSE [ss |-> ss, rerun |-> FALSE]

DepartmentChangeKeepsRatingsMutant(ss, selected_department) ==
    IF selected_department # ss.active_department
    THEN [ ss |-> [ss EXCEPT !.active_department = selected_department,
                             !.current_question_index = 0,
                             !.submitted = FALSE,
                             !.recommendations = <<>>,
                             !.summary = <<>>],
           rerun |-> selected_department # PleaseSelect ]
    ELSE [ss |-> ss, rerun |-> FALSE]

DepartmentChangeMutant(ss, selected_department) ==
    IF selected_department # ss.active_department
    THEN [ ss |-> [ss EXCEPT !.active_department = selected_department,
                             !.current_question_index = 0,
                             !.ratings = EmptyDict,
                             !.submitted = FALSE],
           rerun |-> selected_department # PleaseSelect ]
    ELSE [ss |-> ss, rerun |-> FALSE]

DepartmentChange(ss, selected_department) ==
    IF selected_department # ss.active_department
    THEN [ ss |-> [ss EXCEPT !.active_department = selected_department,
                             !.current_question_index = 0,
                             !.ratings = EmptyDict,
                             !.submitted = FALSE,
                             !.recommendations = <<>>,
                             !.summary = <<>>],
           rerun |-> selected_department # PleaseSelect ]
    ELSE [ss |-> ss, rerun |-> FALSE]

\* the Submit handler, app.py:290-299
SubmitMutant(ss, selected_department) ==
    [ss EXCEPT !.submitted = TRUE,
               !.last_submitted_department = selected_department,
               !.recommendations = <<>>,
               !.summary = <<>>]

Submit(ss, selected_department) ==
    [ss EXCEPT !.submitted = TRUE,
               !.last_submitted_department = selected_department,
               !.last_submitted_ratings = ss.ratings,
               !.recommendations = <<>>,
               !.summary = <<>>]

\* current_question_index < total_questions - 1, app.py:274
BeforeLastMutant(index, total_questions) == index < total_questions

BeforeLast(index, total_questions) == index < total_questions - 1

\* the conditions under which a question is displayed, app.py:236 and 246
QuestionnaireShownMutant(ss, selected_department) == selected_department # PleaseSelect

QuestionnaireShown(ss, selected_department) ==
    selected_department # PleaseSelect /\ ~ss.submitted

\* the questionnaire block, app.py:236-299
Questionnaire(ss, selected_department, sl, click) ==
    IF ~QuestionnaireShown(ss, selected_department)
    THEN [ss |-> ss, rerun |-> FALSE, slider |-> NoSlider, question |-> NoQuestion,
          buttons |-> {}, submit |-> FALSE]
    ELSE
    LET department_questions == questions[selected_department]
        total_questions == Len(department_questions)
        index == IF ss.current_question_index >= total_questions
                 THEN total_questions - 1 ELSE ss.current_question_index
        current_question == department_questions[index + 1]
        current_rating_value == DictGet(ss.ratings, current_question, DefaultRating)
        key == <<selected_department, index>>
        rating == IF sl.key = key THEN sl.value ELSE current_rating_value
        rated == [ss EXCEPT !.current_question_index = index,
                            !.ratings = DictSet(ss.ratings, current_question, rating)]
        widget == [key |-> key, value |-> rating]
        shown == IF BeforeLast(index, total_questions)
                 THEN {"Next"} \cup (IF index > 0 THEN {"Previous"} ELSE {})
                 ELSE {"Submit"}
    IN  IF BeforeLast(index, total_questions)
        THEN IF index > 0 /\ click = "Previous"
             THEN [ss |-> [rated EXCEPT !.current_question_index = index - 1],
                   rerun |-> TRUE, slider |-> widget, question |-> index,
                   buttons |-> {"Previous"}, submit |-> FALSE]
             ELSE IF click = "Next"
             THEN [ss |-> [rated EXCEPT !.current_question_index = index + 1],
                   rerun |-> TRUE, slider |-> widget, question |-> index,
                   buttons |-> shown, submit |-> FALSE]
             ELSE [ss |-> rated, rerun |-> FALSE, slider |-> widget, question |-> index,
                   buttons |-> shown, submit |-> FALSE]
        ELSE IF click = "Submit"
             THEN [ss |-> Submit(rated, selected_department),
                   rerun |-> TRUE, slider |-> widget, question |-> index,
                   buttons |-> shown, submit |-> TRUE]
             ELSE [ss |-> rated, rerun |-> FALSE, slider |-> widget, question |-> index,
                   buttons |-> shown, submit |-> FALSE]

\* "Only call API if recommendations haven't been generated yet", app.py:310
NeedsCallRetryMutant(ss) == ss.summary = <<>>

NeedsCallMutant(ss) == ss.recommendations = <<>>

NeedsCall(ss) == ss.recommendations = <<>> /\ ss.summary = <<>>

\* storing the returned pair, app.py:319-321; an escaped exception ends the run
StoreResultMutant(ss, r) ==
    [ss |-> ss, rerun |-> TRUE, called |-> TRUE, thanks |-> TRUE, results |-> FALSE]

StoreResult(ss, r) ==
    IF r.raised # NoException
    THEN [ss |-> ss, rerun |-> FALSE, called |-> TRUE, thanks |-> TRUE, results |-> FALSE]
    ELSE [ss |-> [ss EXCEPT !.recommendations = r.value[1], !.summary = r.value[2]],
          rerun |-> TRUE, called |-> TRUE, thanks |-> TRUE, results |-> FALSE]

\* the results block, app.py:305-339
Results(ss, resp) ==
    IF ss.submitted /\ ss.last_submitted_department # None
    THEN IF NeedsCall(ss)
         THEN The({StoreResult(ss, r) : r \in {get_gemini_recommendations(resp)}})
         ELSE [ss |-> ss, rerun |-> FALSE, called |-> FALSE, thanks |-> TRUE,
               results |-> TRUE]
    ELSE [ss |-> ss, rerun |-> FALSE, called |-> FALSE, thanks |-> FALSE, results |-> FALSE]

\* the end of a run that no st.rerun() of the questionnaire block cut short
ScriptEnd(b, c) ==
    [ss |-> c.ss, rerun |-> c.rerun, slider |-> b.slider,
     screen |-> [question |-> b.question, buttons |-> b.buttons,
                 thanks |-> c.thanks, results |-> c.results],
     submit |-> FALSE, called |-> c.called]

\* the run from the questionnaire block on
ScriptFromQuestionnaire(b, resp) ==
    IF b.rerun
    THEN [ss |-> b.ss, rerun |-> TRUE, slider |-> b.slider,
          screen |-> [BlankScreen EXCEPT !.question = b.question, !.buttons = b.buttons],
          submit |-> b.submit, called |-> FALSE]
    ELSE The({ScriptEnd(b, c) : c \in {Results(b.ss, resp)}})

\* the run after the department-change block
ScriptFromChange(a, selected_department, sl, click, resp) ==
    IF a.rerun
    THEN [ss |-> a.ss, rerun |-> TRUE, slider |-> NoSlider, screen |-> BlankScreen,
          submit |-> FALSE, called |-> FALSE]
    ELSE The({ ScriptFromQuestionnaire(b, resp)
               : b \in {Questionnaire(a.ss, selected_department, sl, click)} })

\* the script from top to bottom; st.rerun() ends the run where it is called
Script(ss, selected_department, sl, click, resp) ==
    The({ ScriptFromChange(a, selected_department, sl, click, resp)
          : a \in {DepartmentChange(ss, selected_department)} })

\* the pairs the error paths of get_gemini_recommendations return,
\* app.py:173, 176, 179, 182
ExceptionClasses ==
    {"ConnectionError", "Timeout", "HTTPError", "requests.JSONDecodeError",
     "json.JSONDecodeError", "KeyError", "IndexError", "TypeError", "AttributeError"}
ErrorMessages ==
    {NoCandidatesMessage, ParseFailureMessage}
    \cup {ConnectMessage(e) : e \in ExceptionClasses}
    \cup {UnexpectedMessage(e) : e \in ExceptionClasses}
ErrorResults == {<<<<m>>, <<>>>> : m \in ErrorMessages}

\* GEMINI_API_KEY = st.secrets["GEMINI_API_KEY"], app.py:4: the first statement
\* of every script run
GeminiKeyName == "GEMINI_API_KEY"
LoadKey(sec) == IF GeminiKeyName \in sec THEN Value(JNull) ELSE Raise("KeyError")

\* a run that line 4 ends: nothing is rendered and no later line is reached
RunFails(event, e) ==
    /\ uncaught' = e
    /\ screen' = BlankScreen
    /\ slider' = NoSlider
    /\ pc' = "idle"
    /\ last_run' = [event |-> event, called |-> FALSE, department |-> None,
                    ratings |-> EmptyDict]
    /\ UNCHANGED <<session_state, department_select, calls, moved, secrets, failed>>
    /\ UNCHANGED ex_vars

\* what the API may answer in a run: a run that starts with submitted false or
\* with a cached result reaches no call (app.py:305, 310) and has no exchange
Exchanges(ss) ==
    IF ss.submitted /\ NeedsCall(ss) THEN SessionResponses ELSE {Ok(JsonBody(JNull))}

\* a script run with the widget values of the interaction that triggered it
RunScript(event, selected_department, sl, click) ==
    IF LoadKey(secrets).exc # NoException
    THEN RunFails(event, LoadKey(secrets).exc)
    ELSE
    \E resp \in Exchanges(session_state) :
      \E r \in {Script(session_state, selected_department, sl, click, resp)} :
        /\ uncaught' = NoException
        /\ UNCHANGED secrets
        /\ failed' = (failed \/ (r.called /\ <<r.ss.recommendations, r.ss.summary>> \in ErrorResults))
        /\ session_state' = r.ss
        /\ department_select' = selected_department
        /\ slider' = r.slider
        /\ pc' = IF r.rerun THEN "rerun" ELSE "idle"
        /\ screen' = r.screen
        /\ last_run' = [ event |-> event, called |-> r.called,
                         department |-> IF r.called THEN session_state.last_submitted_department
                                        ELSE None,
                         ratings |-> IF r.called THEN session_state.last_submitted_ratings
                                     ELSE EmptyDict ]
        /\ calls' = IF r.submit THEN 0 ELSE IF r.called THEN calls + 1 ELSE calls
        /\ moved' = IF selected_department # session_state.active_department THEN {}
                     ELSE IF event = "slider" THEN moved \cup {sl.key} ELSE moved
        /\ UNCHANGED ex_vars

----------------------------------------------------------------------------
(* The interactions of the user, each followed by one script run *)

\* the user picks another option of the selectbox (rendered at app.py:200
\* by every run that gets past line 4)
SelectDepartment(d) ==
    /\ pc = "idle"
    /\ uncaught = NoException
    /\ d # department_select
    /\ RunScript("select", d, slider, NoClick)

\* the user drags the slider of the displayed question
MoveSlider(v) ==
    /\ pc = "idle"
    /\ screen.question # NoQuestion
    /\ v # slider.value
    /\ RunScript("slider", department_select, [slider EXCEPT !.value = v], NoClick)

ClickNext ==
    /\ pc = "idle"
    /\ "Next" \in screen.buttons
    /\ RunScript("next", department_select, slider, "Next")

ClickPrevious ==
    /\ pc = "idle"
    /\ "Previous" \in screen.buttons
    /\ RunScript("previous", department_select, slider, "Previous")

ClickSubmit ==
    /\ pc = "idle"
    /\ "Submit" \in screen.buttons
    /\ RunScript("submit", department_select, slider, "Submit")

\* the run that st.rerun() asked for
Rerun ==
    /\ pc = "rerun"
    /\ RunScript("rerun", department_select, slider, NoClick)

\* a rerun the user asks for without touching a widget
UserRerun ==
    /\ pc = "idle"
    /\ RunScript("refresh", department_select, slider, NoClick)

ExtractorIdle ==
    /\ response = Ok(JsonBody(JNull))
    /\ ex_pc = "idle"
    /\ result = JNull
    /\ generated_text = <<>>
    /\ lines = <<>>
    /\ pos = 0
    /\ parse = ParseStart
    /\ returned = NotReturned

SessionStart ==
    /\ session_state = InitialSessionState
    /\ department_select = PleaseSelect
    /\ slider = NoSlider
    /\ pc = "idle"
    /\ screen = BlankScreen
    /\ last_run = [event |-> "start", called |-> FALSE, department |-> None,
                   ratings |-> EmptyDict]
    /\ calls = 0
    /\ moved = {}
    /\ secrets = {GeminiKeyName}
    /\ uncaught = NoException
    /\ failed = FALSE

\* the first run of a session whose secrets lack the key: line 4 raises, so
\* lines 207-222 never set a key of session_state; the model keeps their
\* defaults, which no run reads
SessionWithoutKey ==
    /\ session_state = InitialSessionState
    /\ department_select = PleaseSelect
    /\ slider = NoSlider
    /\ pc = "idle"
    /\ screen = BlankScreen
    /\ last_run = [event |-> "start", called |-> FALSE, department |-> None,
                   ratings |-> EmptyDict]
    /\ calls = 0
    /\ moved = {}
    /\ secrets = {}
    /\ uncaught = LoadKey({}).exc
    /\ failed = FALSE

Init == (SessionStart \/ SessionWithoutKey) /\ ExtractorIdle

Next ==
    \/ \E d \in Departments : SelectDepartment(d)
    \/ \E v \in SliderInputs : MoveSlider(v)
    \/ ClickNext
    \/ ClickPrevious
    \/ ClickSubmit
    \/ Rerun
    \/ UserRerun

Spec == Init /\ [][Next]_vars

\* the session with the runs that st.rerun() asks for carried out: Streamlit
\* starts the script again as soon as the run that called st.rerun() has stopped
FairSpec == Spec /\ WF_vars(Rerun)

----------------------------------------------------------------------------
(* The responses get_gemini_recommendations is run on *)

Fragments == {SummaryToken, <<"-">>, <<"*">>, <<" ">>, <<"\n">>, <<"x">>}

\* the texts made of at most n fragments
RECURSIVE TextsUpTo(_)
TextsUpTo(n) ==
    IF n = 0 THEN {<<>>}
    ELSE LET shorter == TextsUpTo(n - 1)
         IN  shorter \cup {t \o f : t \in shorter, f \in Fragments}

ExampleTexts ==
    { <<"-", " ", "I", "m", "p", "r", "o", "v", "e", " ", "X", "\n", "-", " ", "I", "m",
        "p", "r", "o", "v", "e", " ", "Y", "\n", "S", "u", "m", "m", "a", "r", "y", ":", " ",
        "D", "o", " ", "Z">>,
      <<"E", "v", "e", "r", "y", "t", "h", "i", "n", "g", " ", "i", "s", " ", "f", "i",
        "n", "e", ".">>,
      <<"-", " ", "*", "*", "I", "m", "p", "r", "o", "v", "e", "*", "*", " ", "X", " ",
        "\n", "-", " ", "Y", "\n", "\n", "S", "u", "m", "m", "a", "r", "y", ":", " ", " ",
        "*", "*", "D", "o", "*", "*", " ", "Z", " ", "\n", "S", "u", "m", "m", "a", "r", "y",
        ":", " ", "W", "\n", "-", " ", "l", "a", "t", "e">> }

Texts == TextsUpTo(MaxFragments) \cup ExampleTexts

\* JSON bodies without a usable candidates[0].content.parts[0].text
MalformedResults ==
    { JNull, JObj(<<>>), JArr(<<>>), JNum(0),
      JNum(1), JArr(<<JNum(1)>>), JStr(<<"x">>),
      JObj(<< <<"error", JStr(<<"x">>)>> >>),
      JObj(<< <<"candidates", JNull>> >>),
      JObj(<< <<"candidates", JArr(<<>>)>> >>),
      JObj(<< <<"candidates", JNum(1)>> >>),
      JObj(<< <<"candidates", JObj(<< <<"x", JNull>> >>)>> >>),
      JObj(<< <<"candidates", JArr(<<JNull>>)>> >>),
      JObj(<< <<"candidates", JArr(<<JObj(<<>>)>>)>> >>),
      JObj(<< <<"candidates", JArr(<<JObj(<< <<"content", JObj(<<>>)>> >>)>>)>> >>),
      JObj(<< <<"candidates",
                JArr(<<JObj(<< <<"content", JObj(<< <<"parts", JArr(<<>>)>> >>)>> >>)>>)>> >>),
      JObj(<< <<"candidates",
                JArr(<<JObj(<< <<"content",
                                 JObj(<< <<"parts", JArr(<<JObj(<<>>)>>)>> >>)>> >>)>>)>> >>),
      JObj(<< <<"candidates", JArr(<<Candidate(JNull)>>)>> >>),
      JObj(<< <<"candidates", JArr(<<Candidate(JNum(1))>>)>> >>) }

Responses ==
    {TransportFailure(e) : e \in {"ConnectionError", "Timeout"}}
    \cup {HttpError(b) : b \in {NotJsonBody("requests.JSONDecodeError"),
                                ReplyBody(<<"-", "x">>)}}
    \cup {Ok(NotJsonBody(e)) : e \in {"requests.JSONDecodeError", "json.JSONDecodeError"}}
    \cup {Ok(JsonBody(j)) : j \in MalformedResults}
    \cup {Ok(ReplyBody(t)) : t \in Texts}

----------------------------------------------------------------------------
(* get_gemini_recommendations statement by statement, app.py:130-182 *)

\* an exception raised in the try block reaches the except clauses
Except(e) ==
    /\ returned' = Handle(e)
    /\ ex_pc' = "done"

\* response = requests.post(...), app.py:132-137
ExPost ==
    /\ ex_pc = "post"
    /\ \E r \in {Post(response)} :
          IF r.exc # NoException
          THEN Except(r.exc)
          ELSE ex_pc' = "raise_for_status" /\ UNCHANGED returned
    /\ UNCHANGED <<response, result, generated_text, lines, pos, parse>>
    /\ UNCHANGED ui_vars

\* response.raise_for_status(), app.py:138
ExRaiseForStatus ==
    /\ ex_pc = "raise_for_status"
    /\ \E r \in {RaiseForStatus(response)} :
          IF r.exc # NoException
          THEN Except(r.exc)
          ELSE ex_pc' = "json" /\ UNCHANGED returned
    /\ UNCHANGED <<response, result, generated_text, lines, pos, parse>>
    /\ UNCHANGED ui_vars

\* result = response.json(), app.py:139
ExJson ==
    /\ ex_pc = "json"
    /\ \E r \in {ResponseJson(response)} :
          IF r.exc # NoException
          THEN Except(r.exc) /\ UNCHANGED result
          ELSE result' = r.v /\ ex_pc' = "candidates" /\ UNCHANGED returned
    /\ UNCHANGED <<response, generated_text, lines, pos, parse>>
    /\ UNCHANGED ui_vars

\* the test of the candidates and the else branch, app.py:141-145 and 172-173
ExCandidates ==
    /\ ex_pc = "candidates"
    /\ \E has \in {HasCandidates(result)} :
          IF has.exc # NoException
          THEN Except(has.exc)
          ELSE IF has.v
          THEN ex_pc' = "text" /\ UNCHANGED returned
          ELSE returned' = Returned(<<<<NoCandidatesMessage>>, <<>>>>) /\ ex_pc' = "done"
    /\ UNCHANGED <<response, result, generated_text, lines, pos, parse>>
    /\ UNCHANGED ui_vars

\* generated_text = ...["text"]; lines = generated_text.split('\n'), app.py:146-150
ExText ==
    /\ ex_pc = "text"
    /\ \E text \in {CandidateText(result)} :
          IF text.exc # NoException
          THEN Except(text.exc) /\ UNCHANGED <<generated_text, lines>>
          ELSE \E ls \in {SplitLines(text.v)} :
                  IF ls.exc # NoException
                  THEN Except(ls.exc) /\ UNCHANGED <<generated_text, lines>>
                  ELSE /\ generated_text' = text.v.v
                       /\ lines' = ls.v
                       /\ ex_pc' = "loop"
                       /\ UNCHANGED returned
    /\ UNCHANGED <<response, result, pos, parse>>
    /\ UNCHANGED ui_vars

\* one iteration of the for loop, app.py:151-162
ExLine ==
    /\ ex_pc = "loop"
    /\ pos < Len(lines)
    /\ parse' = ParseLine(parse, lines[pos + 1])
    /\ pos' = pos + 1
    /\ UNCHANGED <<response, ex_pc, result, generated_text, lines, returned>>
    /\ UNCHANGED ui_vars

\* the fallback and `return recommendations, summary`, app.py:165-171
ExReturn ==
    /\ ex_pc = "loop"
    /\ pos = Len(lines)
    /\ returned' = Returned(Fallback(parse, generated_text))
    /\ ex_pc' = "done"
    /\ UNCHANGED <<response, result, generated_text, lines, pos, parse>>
    /\ UNCHANGED ui_vars

ExtractorInit ==
    /\ SessionStart
    /\ response \in Responses
    /\ ex_pc = "post"
    /\ result = JNull
    /\ generated_text = <<>>
    /\ lines = <<>>
    /\ pos = 0
    /\ parse = ParseStart
    /\ returned = NotReturned

ExtractorNext ==
    \/ ExPost
    \/ ExRaiseForStatus
    \/ ExJson
    \/ ExCandidates
    \/ ExText
    \/ ExLine
    \/ ExReturn

ExtractorSpec == ExtractorInit /\ [][ExtractorNext]_vars

\* the statement-by-statement run returns what the one-call operator returns
StepwiseAgrees == ex_pc = "done" => returned = get_gemini_recommendations(response)

----------------------------------------------------------------------------
(* Properties of the session *)

QuestionSet(d) == {questions[d][i] : i \in 1..Len(questions[d])}
\* the key of the slider that question q is rated with
SliderKeyOf(q) ==
    CHOOSE key \in (Departments \ {PleaseSelect}) \X (0..(NumQuestions - 1)) :
        questions[key[1]][key[2] + 1] = q

\* C1: after a Submit the snapshot last_submitted_ratings has exactly the
\* questions of the active department as keys, every value is in 1..5, and
\* every question whose slider was not dragged holds the default 3.
C1_SubmitSnapshotComplete ==
    session_state.submitted =>
        LET d == session_state.last_submitted_department
            snapshot == session_state.last_submitted_ratings
        IN  /\ d = session_state.active_department
            /\ d # PleaseSelect
            /\ DOMAIN snapshot = QuestionSet(d)
            /\ \A q \in DOMAIN snapshot :
                  /\ snapshot[q] \in SliderMin..SliderMax
                  /\ SliderKeyOf(q) \notin moved => snapshot[q] = DefaultRating

\* Sales selected, Next on every question but the last, no slider touched, Submit
C1_Witness ==
    /\ last_run.event = "submit"
    /\ moved = {}
    /\ session_state.last_submitted_department = "Sales"
    /\ session_state.last_submitted_ratings = [q \in QuestionSet("Sales") |-> DefaultRating]
    /\ Cardinality(DOMAIN session_state.last_submitted_ratings) = NumQuestions

\* C2: get_gemini_recommendations is invoked exactly once per Submit; its
\* result is stored and every later rerun reuses it without a further call.
C2_OneCallPerSubmit ==
    /\ [](calls <= 1)
    /\ [](pc = "idle" /\ session_state.submitted => calls = 1 /\ ~NeedsCall(session_state))
    /\ [][session_state.submitted /\ calls = 1 /\ session_state'.submitted
            => /\ ~last_run'.called
               /\ calls' = 1
               /\ session_state'.recommendations = session_state.recommendations
               /\ session_state'.summary = session_state.summary]_vars

\* a rerun after the result of a failed call was stored
C2_Witness ==
    /\ session_state.submitted
    /\ calls = 1
    /\ last_run.event = "refresh"
    /\ session_state.recommendations = <<ConnectMessage("ConnectionError")>>

\* C3: selecting a department other than the active one resets the index to
\* 0, empties ratings, clears submitted and the cached recommendations and
\* summary; a real department then shows question 0, the placeholder none.
C3_DepartmentChangeResets ==
    /\ [][department_select' # session_state.active_department
            => /\ session_state'.active_department = department_select'
               /\ session_state'.current_question_index = 0
               /\ session_state'.ratings = EmptyDict
               /\ ~session_state'.submitted
               /\ session_state'.recommendations = <<>>
               /\ session_state'.summary = <<>>
               /\ screen'.question = NoQuestion
               /\ pc' = IF department_select' = PleaseSelect THEN "idle" ELSE "rerun"]_vars
    /\ [][last_run.event = "select" /\ pc = "rerun"
            => /\ pc' = "idle"
               /\ screen'.question = 0
               /\ session_state'.current_question_index = 0
               /\ ~session_state'.submitted]_vars

\* a department selected while a submitted form shows its cached result
C3_Witness ==
    /\ last_run.event = "select"
    /\ department_select = "Marketing"
    /\ session_state.last_submitted_department = "Sales"
    /\ calls = 1
    /\ session_state.ratings = EmptyDict

\* C13: once submitted is true no slider, Next, Previous or Submit is shown
\* or acted on, and no run changes the index, the ratings or submitted until
\* a department is selected; that selection clears submitted with index 0,
\* and for a real department the next run displays its question 0.
C13_SubmittedIsTerminal ==
    /\ [](session_state.submitted /\ pc = "idle"
            => screen.question = NoQuestion /\ screen.buttons = {})
    /\ [][session_state.submitted
            => last_run'.event \in {"rerun", "refresh", "select"}]_vars
    /\ [][session_state.submitted /\ last_run'.event # "select"
            => /\ session_state'.submitted
               /\ session_state'.current_question_index = session_state.current_question_index
               /\ session_state'.ratings = session_state.ratings
               /\ session_state'.active_department = session_state.active_department]_vars
    /\ [][session_state.submitted /\ last_run'.event = "select"
            => /\ ~session_state'.submitted
               /\ session_state'.current_question_index = 0
               /\ session_state'.active_department = department_select'
               /\ department_select' # department_select
               /\ department_select' # PleaseSelect => pc' = "rerun"]_vars
    /\ [][last_run.event = "select" /\ pc = "rerun"
            => /\ screen'.question = 0
               /\ slider'.key = <<department_select, 0>>
               /\ ~session_state'.submitted]_vars

\* Marketing's question 0 on display after Sales was submitted and answered
C13_Witness ==
    /\ pc = "idle"
    /\ last_run.event = "rerun"
    /\ session_state.last_submitted_department = "Sales"
    /\ calls = 1
    /\ department_select = "Marketing"
    /\ ~session_state.submitted
    /\ screen.question = 0

\* every entry of the map old is in the map new with the same value
AgreesOn(old, new) ==
    /\ DOMAIN old \subseteq DOMAIN new
    /\ \A q \in DOMAIN old : new[q] = old[q]

LastIndex == Len(questions[department_select]) - 1

\* Next pressed on the displayed question: the index grows by one
NextStep ==
    last_run'.event = "next"
        => /\ screen.question = session_state.current_question_index
           /\ session_state'.current_question_index = session_state.current_question_index + 1
           /\ session_state'.ratings = session_state.ratings
           /\ pc' = "rerun"

\* Previous pressed on the displayed question: the index shrinks by one
PreviousStep ==
    last_run'.event = "previous"
        => /\ screen.question = session_state.current_question_index
           /\ session_state'.current_question_index = session_state.current_question_index - 1
           /\ session_state'.ratings = session_state.ratings
           /\ pc' = "rerun"

\* the run after Next or Previous displays the question of the new index and
\* keeps every rating recorded so far
RenderAfterNavigation ==
    last_run.event \in {"next", "previous"} /\ pc = "rerun"
        => /\ session_state'.current_question_index = session_state.current_question_index
           /\ screen'.question = session_state.current_question_index
           /\ AgreesOn(session_state.ratings, session_state'.ratings)
           /\ pc' = "idle"

\* C14 as claimed: after Next at any index i < last (i = last - 1 included)
\* Previous can be pressed and brings the index back to i, the ratings
\* recorded before the Next unchanged.
C14_NextThenPreviousEverywhere ==
    [][/\ NextStep
       /\ PreviousStep
       /\ RenderAfterNavigation
       /\ last_run.event = "next" /\ pc = "rerun" => "Previous" \in screen'.buttons]_vars

\* C14: after Next at an index i < last - 1 Previous can be pressed and
\* brings the index back to i, the ratings recorded before the Next unchanged;
\* the last question, reached by Next at last - 1, offers Submit only.
C14_NextThenPrevious ==
    [][/\ NextStep
       /\ PreviousStep
       /\ RenderAfterNavigation
       /\ last_run.event = "next" /\ pc = "rerun"
            => IF session_state.current_question_index < LastIndex
               THEN "Previous" \in screen'.buttons
               ELSE screen'.buttons = {"Submit"}]_vars

\* question 0 rated 5, Next, then Previous: index 0 again and the 5 kept
C14_Witness ==
    /\ pc = "idle"
    /\ last_run.event = "rerun"
    /\ department_select = "Sales"
    /\ DOMAIN session_state.ratings = {questions["Sales"][1], questions["Sales"][2]}
    /\ session_state.ratings[questions["Sales"][1]] = SliderMax
    /\ session_state.current_question_index = 0
    /\ screen.question = 0
    /\ slider.value = SliderMax

\* the question a run displays, given the state it starts from
DisplayedQuestion ==
    questions[session_state.active_department][session_state.current_question_index + 1]

\* C15: a run that keeps the active department (after a slider change, Next,
\* Previous or anything else) adds or changes no entry of ratings other than
\* that of the question it displays, and removes none.
C15_OnlyDisplayedQuestionWritten ==
    [][(/\ session_state'.active_department = session_state.active_department
        /\ session_state.active_department # PleaseSelect)
            => /\ DOMAIN session_state.ratings \subseteq DOMAIN session_state'.ratings
               /\ \A q \in DOMAIN session_state'.ratings \ {DisplayedQuestion} :
                     /\ q \in DOMAIN session_state.ratings
                     /\ session_state'.ratings[q] = session_state.ratings[q]]_vars

\* the slider of question 1 dragged down while question 0 holds a 5
C15_Witness ==
    /\ last_run.event = "slider"
    /\ department_select = "Marketing"
    /\ session_state.current_question_index = 1
    /\ session_state.ratings[questions["Marketing"][1]] = SliderMax
    /\ session_state.ratings[questions["Marketing"][2]] = SliderMin

\* C16: whenever a real department is active, current_question_index is an
\* index of its question list.
C16_IndexInRange ==
    session_state.active_department # PleaseSelect
        => /\ 0 <= session_state.current_question_index
           /\ session_state.current_question_index
                 < Len(questions[session_state.active_department])

\* Next pressed on the question before the last
C16_Witness ==
    /\ last_run.event = "next"
    /\ session_state.active_department = "Marketing"
    /\ session_state.current_question_index = Len(questions["Marketing"]) - 1

\* C17: every key of ratings is a question of the active department, and the
\* map is empty while the placeholder is active.
C17_RatingsOfActiveDepartment ==
    DOMAIN session_state.ratings \subseteq
        (IF session_state.active_department = PleaseSelect THEN {}
         ELSE QuestionSet(session_state.active_department))

\* Marketing's first question rated after Sales was answered and submitted
C17_Witness ==
    /\ pc = "idle"
    /\ session_state.last_submitted_department = "Sales"
    /\ session_state.active_department = "Marketing"
    /\ DOMAIN session_state.ratings = {questions["Marketing"][1]}
    /\ Cardinality(DOMAIN session_state.last_submitted_ratings) = NumQuestions

\* C18: only a Submit writes last_submitted_department and
\* last_submitted_ratings, the latter as the ratings map of that moment;
\* every other run leaves both as they are, and the extractor is called with
\* exactly these two values.
C18_SnapshotWrittenBySubmitOnly ==
    [][/\ last_run'.event = "submit"
            => /\ session_state'.last_submitted_ratings = session_state'.ratings
               /\ AgreesOn(session_state.ratings, session_state'.ratings)
               /\ session_state'.last_submitted_department = department_select
               /\ ~last_run'.called
       /\ last_run'.event # "submit"
            => /\ session_state'.last_submitted_ratings = session_state.last_submitted_ratings
               /\ session_state'.last_submitted_department
                     = session_state.last_submitted_department
       /\ last_run'.called
            => /\ last_run'.ratings = session_state.last_submitted_ratings
               /\ last_run'.department = session_state.last_submitted_department]_vars

\* the Sales snapshot intact while a Marketing question is being rated
C18_Witness ==
    /\ last_run.event = "slider"
    /\ session_state.active_department = "Marketing"
    /\ session_state.ratings # EmptyDict
    /\ session_state.last_submitted_department = "Sales"
    /\ session_state.last_submitted_ratings = [q \in QuestionSet("Sales") |-> SliderMax]
    /\ calls = 1

\* the cached result is one of the error messages
CachedError == <<session_state.recommendations, session_state.summary>> \in ErrorResults

\* C19: selecting a department while a submitted form shows a cached error
\* message leads to index 0 with the cache cleared and without a call; the
\* extractor is called in the run that follows a Submit and in no other run,
\* so a cached error is never retried on its own and a new Submit gets one
\* fresh call.
C19_FailureIsNotFinal ==
    /\ [][session_state.submitted /\ CachedError /\ last_run'.event = "select"
            => /\ ~session_state'.submitted
               /\ session_state'.current_question_index = 0
               /\ session_state'.recommendations = <<>>
               /\ session_state'.summary = <<>>
               /\ ~last_run'.called]_vars
    /\ [][last_run'.called
            => /\ last_run.event = "submit"
               /\ calls = 0
               /\ calls' = 1]_vars
    /\ [][last_run.event = "submit" /\ pc = "rerun" => last_run'.called]_vars
    /\ [][session_state.submitted /\ CachedError /\ session_state'.submitted
            => /\ ~last_run'.called
               /\ session_state'.recommendations = session_state.recommendations
               /\ session_state'.summary = session_state.summary]_vars

\* the call of a new Submit answered with a reply, after an earlier call of
\* the session had failed
C19_Witness ==
    /\ failed
    /\ last_run.called
    /\ calls = 1
    /\ session_state.submitted
    /\ session_state.recommendations = <<<<"-", " ", "x">>>>
    /\ session_state.summary = <<"y">>

\* C20: every list of the question bank is non-empty and without a repeated
\* string, so the ratings map has one entry per question index: its keys are
\* the first n questions of the active department and there are n of them.
C20_QuestionsDistinct ==
    /\ \A d \in DOMAIN QuestionBank :
          /\ QuestionBank[d] # <<>>
          /\ \A i, j \in 1..Len(QuestionBank[d]) :
                QuestionBank[d][i] = QuestionBank[d][j] => i = j
    /\ session_state.active_department # PleaseSelect
          => \E n \in 0..Len(questions[session_state.active_department]) :
                /\ DOMAIN session_state.ratings
                      = {questions[session_state.active_department][k] : k \in 1..n}
                /\ Cardinality(DOMAIN session_state.ratings) = n

\* every question of Sales rated, the first two with different values
C20_Witness ==
    /\ session_state.active_department = "Sales"
    /\ ~session_state.submitted
    /\ Cardinality(DOMAIN session_state.ratings) = Len(questions["Sales"])
    /\ session_state.ratings[questions["Sales"][1]] = SliderMin
    /\ session_state.ratings[questions["Sales"][2]] = SliderMax

\* question k (from 0) of the active department has a rating in 1..5 in map r
Rated(r, k) ==
    /\ questions[session_state.active_department][k + 1] \in DOMAIN r
    /\ r[questions[session_state.active_department][k + 1]] \in SliderMin..SliderMax

\* C23: while a real department is active every question below the current
\* index has a rating in 1..5, and the run in which Next or Submit takes
\* effect at index i leaves one recorded for question i as well.
C23_RatedBeforeMovingOn ==
    /\ [](session_state.active_department # PleaseSelect
            => \A k \in 0..(session_state.current_question_index - 1) :
                  Rated(session_state.ratings, k))
    /\ [][last_run'.event \in {"next", "submit"}
            => /\ screen.question = session_state.current_question_index
               /\ Rated(session_state'.ratings, session_state.current_question_index)]_vars

\* Next on Marketing's first question, its slider untouched
C23_Witness ==
    /\ last_run.event = "next"
    /\ moved = {}
    /\ session_state.active_department = "Marketing"
    /\ session_state.current_question_index = 1
    /\ session_state.ratings = [q \in {questions["Marketing"][1]} |-> DefaultRating]

\* C25: while submitted is true, and whenever the extractor is called or the
\* thanks and results are on the screen, the snapshot is that of the selected
\* department: its name, and its questions as keys.
C25_SnapshotOfSelectedDepartment ==
    /\ session_state.submitted \/ screen.thanks \/ screen.results
          => /\ session_state.submitted
             /\ department_select # PleaseSelect
             /\ session_state.active_department = department_select
             /\ session_state.last_submitted_department = department_select
             /\ DOMAIN session_state.last_submitted_ratings = QuestionSet(department_select)
    /\ last_run.called
          => /\ last_run.department = department_select
             /\ DOMAIN last_run.ratings = QuestionSet(department_select)

\* Marketing's result on the screen after an earlier submission had failed
\* (the snapshot of that one was replaced by the Submit)
C25_Witness ==
    /\ pc = "idle"
    /\ screen.results
    /\ department_select = "Marketing"
    /\ session_state.last_submitted_department = "Marketing"
    /\ failed
    /\ ~CachedError

\* C26: a cached recommendations list or summary that is not empty is the
\* result of the submission in force: submitted is true.
C26_CacheOnlyWhileSubmitted ==
    session_state.recommendations # <<>> \/ session_state.summary # <<>>
        => session_state.submitted

\* Sales selected again and being answered after its result had been cached
C26_Witness ==
    /\ pc = "idle"
    /\ ~session_state.submitted
    /\ calls = 1
    /\ session_state.last_submitted_department = "Sales"
    /\ department_select = "Sales"
    /\ screen.question = 1
    /\ session_state.recommendations = <<>>
    /\ session_state.summary = <<>>

\* C27: a displayed question offers Submit alone when it is the last one,
\* otherwise Next, and Previous as well if it is not the first; and while
\* the department stays the same an index that has reached the last question
\* does not change again.
C27_LastQuestionOffersSubmitOnly ==
    /\ [](pc = "idle" /\ screen.question # NoQuestion
            => /\ screen.question = session_state.current_question_index
               /\ screen.buttons =
                     IF screen.question = LastIndex THEN {"Submit"}
                     ELSE IF screen.question = 0 THEN {"Next"}
                     ELSE {"Previous", "Next"})
    /\ [][(/\ session_state.active_department # PleaseSelect
            /\ session_state.current_question_index = LastIndex
            /\ session_state'.active_department = session_state.active_department)
            => session_state'.current_question_index = session_state.current_question_index]_vars

\* the slider of the last question dragged: Submit is all that is offered
C27_Witness ==
    /\ pc = "idle"
    /\ last_run.event = "slider"
    /\ department_select = "Sales"
    /\ screen.question = Len(questions["Sales"]) - 1
    /\ screen.buttons = {"Submit"}

\* C28: the run of a user action asks for at most one rerun, and the chain
\* ends in a run that asks for none: after selecting a department, Next or
\* Previous the one rerun renders the question and makes no call; after
\* Submit the first rerun makes the call and asks for a second, which
\* displays the result; a further run of a stable screen asks for no rerun
\* and makes no call. Every rerun asked for is followed by a stable screen.
C28_RerunChainEnds ==
    /\ [][last_run'.event \in {"next", "previous", "submit"} => pc' = "rerun"]_vars
    /\ [][last_run'.event = "select"
            => pc' = IF department_select' = PleaseSelect THEN "idle" ELSE "rerun"]_vars
    /\ [][last_run'.event \in {"slider", "refresh"} => pc' = "idle" /\ ~last_run'.called]_vars
    /\ [][last_run.event \in {"select", "next", "previous"} /\ pc = "rerun"
            => /\ pc' = "idle"
               /\ ~last_run'.called
               /\ screen'.question = session_state.current_question_index]_vars
    /\ [][last_run.event = "submit" /\ pc = "rerun"
            => /\ pc' = "rerun"
               /\ last_run'.called
               /\ calls' = 1]_vars
    /\ [][last_run.called /\ pc = "rerun"
            => /\ pc' = "idle"
               /\ ~last_run'.called
               /\ screen'.results
               /\ calls' = 1]_vars
    /\ [](pc = "rerun" => last_run.called \/ last_run.event \in {"select", "next", "previous", "submit"})
    /\ (pc = "rerun" ~> pc = "idle")

\* the result on display after the second rerun of a Submit
C28_Witness ==
    /\ pc = "idle"
    /\ last_run.event = "rerun"
    /\ ~last_run.called
    /\ calls = 1
    /\ screen.results
    /\ session_state.submitted
    /\ ~failed

\* C12: with the API key absent from the secrets, no script run fails before
\* the extractor is first used: the selectbox, the slider, Next, Previous and
\* Submit are served, and the error is reported at the first call.
C12_MissingKeyConfinedToExtractor ==
    GeminiKeyName \notin secrets /\ calls = 0 => uncaught = NoException

----------------------------------------------------------------------------
(* Properties of get_gemini_recommendations *)

Done == ex_pc = "done"
\* the call reached the parser: the response carried a reply text
Parsed == Done /\ lines # <<>>
ReturnedRecommendations == returned.value[1]
ReturnedSummary == returned.value[2]

\* C4: no exception escapes the call; every failure of the POST, of the
\* status check, of JSON decoding or of extracting the candidate text
\* returns a list of exactly one message and the empty summary.
C4_FailuresBecomeOneMessage ==
    Done =>
        /\ returned.raised = NoException
        /\ lines = <<>> => /\ Len(ReturnedRecommendations) = 1
                           /\ ReturnedSummary = <<>>

\* a KeyError of the candidate path, caught by the last clause
C4_Witness ==
    /\ Done
    /\ response = Ok(JsonBody(JObj(<< <<"candidates", JArr(<<JObj(<<>>)>>)>> >>)))
    /\ returned = Returned(<<<<UnexpectedMessage("KeyError")>>, <<>>>>)

NoSummaryNoBullet ==
    \A i \in 1..Len(lines) :
        /\ ~StartsWith(Strip(lines[i]), SummaryToken)
        /\ ~StartsWith(Strip(lines[i]), Hyphen)

\* C5: a reply with no line starting with 'Summary:' and no line starting
\* with '-' is returned as the single recommendation, with the summary
\* 'No distinct summary provided by AI.'.
C5_PlainReplyFallsBack ==
    Parsed /\ NoSummaryNoBullet
        => /\ ReturnedRecommendations = <<Remove(Strip(generated_text), Bold)>>
           /\ ReturnedSummary = NoSummaryPlaceholder

\* C6 as claimed: neither a returned recommendation nor the returned summary
\* contains '**'.
C6_NoBoldAnywhere ==
    Parsed =>
        /\ \A i \in 1..Len(ReturnedRecommendations) : ~Contains(ReturnedRecommendations[i], Bold)
        /\ ~Contains(ReturnedSummary, Bold)

\* C6: no returned recommendation contains '**' (the summary keeps the
\* markers of the reply).
C6_NoBoldInRecommendations ==
    Parsed =>
        \A i \in 1..Len(ReturnedRecommendations) : ~Contains(ReturnedRecommendations[i], Bold)

\* a recommendation line that carried the marker
C6_Witness ==
    /\ Parsed
    /\ Contains(lines[1], Bold)
    /\ ~StartsWith(Strip(lines[1]), SummaryToken)
    /\ ReturnedRecommendations # <<>>
    /\ ReturnedSummary # NoSummaryPlaceholder

\* C7: once a line starting with 'Summary:' has been processed, no later
\* line changes the recommendations list or the summary.
C7_NothingAfterSummary ==
    [][parse.summary_found
         => /\ parse'.recommendations = parse.recommendations
            /\ parse'.summary = parse.summary]_vars

\* the reply is k >= 1 lines starting with '-' and then one line 'Summary: S'
BulletsThenSummary ==
    /\ Len(lines) >= 2
    /\ \A i \in 1..(Len(lines) - 1) : StartsWith(lines[i], Hyphen)
    /\ StartsWith(lines[Len(lines)], SummaryToken)

SummaryContent == DropPrefix(lines[Len(lines)], Len(SummaryToken))

\* C8 as claimed: the bullet lines are returned as they stand in the reply
\* (surrounding whitespace aside), and the summary is S trimmed.
C8_BulletLinesVerbatim ==
    Parsed /\ BulletsThenSummary
        => /\ Len(ReturnedRecommendations) = Len(lines) - 1
           /\ \A i \in 1..(Len(lines) - 1) : ReturnedRecommendations[i] = Strip(lines[i])
           /\ ReturnedSummary = Strip(SummaryContent)

\* C8: the k bullet lines are returned in reply order, each trimmed and with
\* every '**' removed, the leading hyphen kept; the summary is S trimmed.
C8_BulletsThenSummary ==
    Parsed /\ BulletsThenSummary
        => /\ Len(ReturnedRecommendations) = Len(lines) - 1
           /\ \A i \in 1..(Len(lines) - 1) :
                 /\ ReturnedRecommendations[i] = Remove(Strip(lines[i]), Bold)
                 /\ StartsWith(ReturnedRecommendations[i], Hyphen)
           /\ ReturnedSummary = Strip(SummaryContent)

\* '- Improve X\n- Improve Y\nSummary: Do Z' gives ['- Improve X', '- Improve Y'], 'Do Z'
C8_Witness ==
    /\ Parsed
    /\ generated_text = <<"-", " ", "I", "m", "p", "r", "o", "v", "e", " ", "X", "\n", "-", " ", "I", "m", "p", "r", "o", "v", "e", " ", "Y", "\n", 
                        "S", "u", "m", "m", "a", "r", "y", ":", " ", "D", "o", " ", "Z">>
    /\ ReturnedRecommendations = <<<<"-", " ", "I", "m", "p", "r", "o", "v", "e", " ", "X">>,
                                   <<"-", " ", "I", "m", "p", "r", "o", "v", "e", " ", "Y">>>>
    /\ ReturnedSummary = <<"D", "o", " ", "Z">>

\* the body is a JSON object whose candidates are absent or a list, and the
\* path candidates[0].content.parts[0].text cannot be followed
PathMissing ==
    /\ response.post = "ok"
    /\ response.status = "ok"
    /\ response.body.kind = "json"
    /\ response.body.value.t = "object"
    /\ \/ ~HasKey(response.body.value, "candidates")
       \/ Lookup(response.body.value, "candidates").t = "array"
    /\ CandidateText(response.body.value).exc # NoException

\* C9: a success response whose JSON lacks candidates[0].content.parts[0].text
\* returns the "no recommendations could be generated" message and the
\* empty summary.
C9_MissingPathMessage ==
    Done /\ PathMissing => returned = Returned(<<<<NoCandidatesMessage>>, <<>>>>)

\* C10: a success status with a body that is not JSON returns the one-element
\* list with the parse-failure message, and the empty summary.
C10_NotJsonMessage ==
    Done /\ response.post = "ok" /\ response.status = "ok" /\ response.body.kind = "not_json"
        => returned = Returned(<<<<ParseFailureMessage>>, <<>>>>)

\* the POST failed, or the status check did
FailedExchange == response.post # "ok" \/ response.status # "ok"
FailureClass == IF response.post # "ok" THEN response.post ELSE "HTTPError"

\* C11: a transport failure of the POST and a non-success status both return
\* the one-element list with the connectivity message and the empty summary,
\* and in neither case is the body decoded or parsed.
C11_FailedExchangeSkipsBody ==
    FailedExchange =>
        /\ ex_pc \in {"post", "raise_for_status", "done"}
        /\ result = JNull
        /\ lines = <<>>
        /\ parse = ParseStart
        /\ Done => returned = Returned(<<<<ConnectMessage(FailureClass)>>, <<>>>>)

\* a non-success status whose body carries a well-formed reply
C11_Witness ==
    /\ Done
    /\ response = HttpError(ReplyBody(<<"-", "x">>))
    /\ returned = Returned(<<<<ConnectMessage("HTTPError")>>, <<>>>>)

\* the index of the first line that starts with 'Summary:' once trimmed, or
\* the number of lines plus one
FirstSummaryLine ==
    IF \E i \in 1..Len(lines) : StartsWith(Strip(lines[i]), SummaryToken)
    THEN CHOOSE i \in 1..Len(lines) :
            /\ StartsWith(Strip(lines[i]), SummaryToken)
            /\ \A j \in 1..(i - 1) : ~StartsWith(Strip(lines[j]), SummaryToken)
    ELSE Len(lines) + 1

\* the first n lines, trimmed, the empty ones left out, '**' removed
RECURSIVE CleanedLines(_)
CleanedLines(n) ==
    IF n = 0 THEN <<>>
    ELSE IF Strip(lines[n]) = <<>> THEN CleanedLines(n - 1)
    ELSE Append(CleanedLines(n - 1), Remove(Strip(lines[n]), Bold))

NonBlankBeforeSummary ==
    \E i \in 1..(FirstSummaryLine - 1) : Strip(lines[i]) # <<>>

\* C21: when a non-blank line precedes the first 'Summary:' line (or there is
\* no such line), the returned recommendations are the trimmed non-empty
\* lines before it, in reply order, each with every '**' removed, with or
\* without a leading '-'.
C21_LinesBeforeSummary ==
    Parsed /\ NonBlankBeforeSummary
        => ReturnedRecommendations = CleanedLines(FirstSummaryLine - 1)

\* 'x', a whitespace-only line, then '-'
C21_Witness ==
    /\ Parsed
    /\ lines = << <<"x">>, <<" ">>, <<"-">> >>
    /\ ReturnedRecommendations = << <<"x">>, <<"-">> >>

\* the content of the last line that starts with 'Summary:', trimmed; empty
\* when there is no such line
LastSummaryContent ==
    IF \E i \in 1..Len(lines) : StartsWith(Strip(lines[i]), SummaryToken)
    THEN LET last == CHOOSE i \in 1..Len(lines) :
                        /\ StartsWith(Strip(lines[i]), SummaryToken)
                        /\ \A j \in (i + 1)..Len(lines) :
                              ~StartsWith(Strip(lines[j]), SummaryToken)
         IN  Strip(DropPrefix(Strip(lines[last]), Len(SummaryToken)))
    ELSE <<>>

\* the pass over the lines leaves the list and the summary empty
NothingParsed == ~NonBlankBeforeSummary /\ LastSummaryContent = <<>>

\* what the fallback returns
FallbackPair == <<<<Remove(Strip(generated_text), Bold)>>, NoSummaryPlaceholder>>

\* every line is blank or a 'Summary:' with empty content
OnlyBlankOrEmptySummary ==
    \A i \in 1..Len(lines) : Strip(lines[i]) = <<>> \/ Strip(lines[i]) = SummaryToken

\* C22 as claimed: the whole reply, trimmed and without '**', is returned
\* with the placeholder summary when the reply has only blank lines and
\* 'Summary:' lines with empty content, and the placeholder is returned for
\* no other reply.
C22_PlaceholderOnlyForBlankReplies ==
    Parsed => IF OnlyBlankOrEmptySummary
              THEN returned.value = FallbackPair
              ELSE ReturnedSummary # NoSummaryPlaceholder

\* C22: the whole reply, trimmed and without '**', is returned with the
\* placeholder summary exactly when no non-blank line precedes the first
\* 'Summary:' line and the last 'Summary:' line, if any, has empty content;
\* otherwise the parsed lines and the content of the last 'Summary:' line
\* are returned.
C22_FallbackWhenNothingParsed ==
    Parsed => IF NothingParsed
              THEN returned.value = FallbackPair
              ELSE /\ ReturnedRecommendations = CleanedLines(FirstSummaryLine - 1)
                   /\ ReturnedSummary = LastSummaryContent

\* 'Summary:' with nothing after the colon, then a line the pass ignores
C22_Witness ==
    /\ Parsed
    /\ lines = <<SummaryToken, <<"x">>>>
    /\ ReturnedRecommendations = <<SummaryToken \o <<"\n", "x">>>>
    /\ ReturnedSummary = NoSummaryPlaceholder

\* C24: whatever the exchange delivers, the call returns a pair whose list or
\* summary is non-empty, so that once the pair is stored (app.py:319-320) the
\* guard of the call (app.py:310) is false.
C24_ResultNeverEmpty ==
    Done =>
        /\ returned.raised = NoException
        /\ ReturnedRecommendations # <<>> \/ ReturnedSummary # <<>>
        /\ \A stored \in {StoreResult(session_state, returned)} :
              /\ stored.rerun
              /\ ~NeedsCall(stored.ss)

\* the empty reply text: the list holds one empty string
C24_Witness ==
    /\ Done
    /\ response = Ok(ReplyBody(<<>>))
    /\ returned = Returned(<< << <<>> >>, NoSummaryPlaceholder >>)

====
